---- MODULE Spec2Model ----
(***************************************************************************)
(* Model of the polar-plant EC dashboard (src/main.py): the file locator,  *)
(* the two cached loaders and the script that renders the three tabs.      *)
(*                                                                         *)
(* Text is a sequence of Unicode code points.  Fresh weights are integers  *)
(* in tenths of a gram.  A Python dict is the record of its keys, in        *)
(* insertion order, and of their values; a data frame is a sequence of     *)
(* rows, and the empty sequence while the script has not computed it.      *)
(***************************************************************************)
EXTENDS Integers, Sequences, FiniteSets, TLC

VARIABLES
    files,          \* the data directory: entries [name, content] in iteration order
    target_name,    \* locator run: the name looked for
    found,          \* locator run: what find_file returned
    lpc,            \* locator run: "call" before, "returned" after find_file
    env_cache,      \* st.cache_data entry of load_environment_data, or Unset
    growth_cache,   \* st.cache_data entry of load_growth_data, or Unset
    pc,             \* position of the script run
    school_option,  \* value of the sidebar selectbox (widget state)
    env_data,       \* line 74
    growth_data,    \* line 75
    errors,         \* st.error messages shown in this run
    rendered,       \* the elements this run has put on the page, in order
    summary_df,     \* line 126
    avg_weight_by_ec, \* line 133
    optimal_school, \* line 137
    optimal_ec,     \* line 138
    metrics,        \* the four st.metric values of lines 141-144
    env_mean,       \* line 153
    timeseries,     \* the data frame plotted by lines 179-190
    weight_mean,    \* line 204
    exception,      \* the uncaught exception that ended this run, if any
    first_env,      \* history: what the first call of load_environment_data returned
    first_growth,   \* history: what the first call of load_growth_data returned
    changes         \* history: number of changes made to the data directory

lvars == <<files, target_name, found, lpc>>
cachevars == <<env_cache, growth_cache, first_env, first_growth>>
runvars ==
    <<pc, env_data, growth_data, errors, rendered, summary_df, avg_weight_by_ec,
      optimal_school, optimal_ec, metrics, env_mean, timeseries, weight_mean,
      exception>>
vars == <<lvars, cachevars, runvars, school_option, changes>>

\* Python's None.
None == [none |-> TRUE]

Range(s) == {s[i] : i \in DOMAIN s}

(***************************************************************************)
(* unicodedata.normalize("NFC", text) on the texts of this program: ASCII  *)
(* and Hangul.  Canonical decomposition of a precomposed syllable into its *)
(* conjoining jamo, then canonical composition (L+V -> LV, LV+T -> LVT).   *)
(***************************************************************************)
SBase == 44032
LBase == 4352
VBase == 4449
TBase == 4519
LCount == 19
VCount == 21
TCount == 28
NCount == VCount * TCount
SCount == LCount * NCount

IsSyllable(c) == c >= SBase /\ c < SBase + SCount
IsL(c) == c >= LBase /\ c < LBase + LCount
IsV(c) == c >= VBase /\ c < VBase + VCount
IsT(c) == c > TBase /\ c < TBase + TCount
IsLV(c) == IsSyllable(c) /\ (c - SBase) % TCount = 0

Decompose(c) ==
    IF IsSyllable(c)
    THEN LET i == c - SBase
             l == LBase + (i \div NCount)
             v == VBase + ((i % NCount) \div TCount)
             t == TBase + (i % TCount)
         IN  IF t = TBase THEN <<l, v>> ELSE <<l, v, t>>
    ELSE <<c>>

RECURSIVE NFD(_)
NFD(text) ==
    IF text = <<>> THEN <<>> ELSE Decompose(Head(text)) \o NFD(Tail(text))

RECURSIVE ComposeInto(_, _)
ComposeInto(acc, rest) ==
    IF rest = <<>> THEN acc
    ELSE LET c == Head(rest)
             n == Len(acc)
             last == IF n = 0 THEN 0 ELSE acc[n]
         IN  IF n > 0 /\ IsL(last) /\ IsV(c)
             THEN ComposeInto(
                    [acc EXCEPT ![n] = SBase + ((last - LBase) * VCount + (c - VBase)) * TCount],
                    Tail(rest))
             ELSE IF n > 0 /\ IsLV(last) /\ IsT(c)
             THEN ComposeInto([acc EXCEPT ![n] = last + (c - TBase)], Tail(rest))
             ELSE ComposeInto(Append(acc, c), Tail(rest))

normalize(text) == ComposeInto(<<>>, NFD(text))

(***************************************************************************)
(* The names of the program, as the source file writes them (composed).    *)
(***************************************************************************)
Songdo == <<49569, 46020, 44256>>
Haneul == <<54616, 45720, 44256>>
Ara == <<50500, 46972, 44256>>
Dongsan == <<46041, 49328, 44256>>
EnvSuffix == <<95, 54872, 44221, 45936, 51060, 53552, 46, 99, 115, 118>>
GrowthFileName ==
    <<52, 44060, 44368, 95, 49373, 50977, 44208, 44284, 45936, 51060, 53552,
      46, 120, 108, 115, 120>>
All == <<51204, 52404>>

Schools == <<Songdo, Haneul, Ara, Dongsan>>
EnvFileName(school) == school \o EnvSuffix

(***************************************************************************)
(* find_file: the first entry, in iteration order, whose normalized name   *)
(* equals the normalized target; None when there is none.                  *)
(***************************************************************************)
RECURSIVE FirstMatch(_, _, _)
FirstMatch(directory, target_nfc, i) ==
    IF i > Len(directory) THEN None
    ELSE IF normalize(directory[i].name) = target_nfc THEN directory[i]
    ELSE FirstMatch(directory, target_nfc, i + 1)

RECURSIVE FirstRawMatch(_, _, _)
FirstRawMatch(directory, target_nfc, i) ==
    IF i > Len(directory) THEN None
    ELSE IF directory[i].name = target_nfc THEN directory[i]
    ELSE FirstRawMatch(directory, target_nfc, i + 1)

find_file_raw(directory, target) == FirstRawMatch(directory, normalize(target), 1)

find_file(directory, target) == FirstMatch(directory, normalize(target), 1)

(***************************************************************************)
(* Python dicts (insertion ordered) and data frames.                       *)
(***************************************************************************)
EmptyDict == [keys |-> <<>>, values |-> <<>>]

Keys(d) == {d.keys[i] : i \in DOMAIN d.keys}

IndexOf(d, k) == CHOOSE i \in DOMAIN d.keys : d.keys[i] = k

Get(d, k) == d.values[IndexOf(d, k)]

Put(d, k, v) ==
    IF k \in Keys(d)
    THEN [d EXCEPT !.values[IndexOf(d, k)] = v]
    ELSE [keys |-> Append(d.keys, k), values |-> Append(d.values, v)]

\* pd.concat(d.values())
RECURSIVE ConcatFrom(_, _)
ConcatFrom(dfs, i) ==
    IF i > Len(dfs) THEN <<>> ELSE dfs[i] \o ConcatFrom(dfs, i + 1)

concat(d) == ConcatFrom(d.values, 1)

\* Lines 53 and 69: every row gets its school in the school column.
TagEnv(df, school) ==
    [i \in DOMAIN df |->
        [time |-> df[i].time, temperature |-> df[i].temperature,
         humidity |-> df[i].humidity, ph |-> df[i].ph, ec |-> df[i].ec,
         school |-> school]]

TagGrowth(df, school) ==
    [i \in DOMAIN df |-> [id |-> df[i].id, weight |-> df[i].weight, school |-> school]]

\* Python's order on strings: code point by code point, a prefix first.
RECURSIVE LexLess(_, _)
LexLess(a, b) ==
    IF b = <<>> THEN FALSE
    ELSE IF a = <<>> THEN TRUE
    ELSE IF Head(a) # Head(b) THEN Head(a) < Head(b)
    ELSE LexLess(Tail(a), Tail(b))

RECURSIVE SortAsc(_)
SortAsc(S) ==
    IF S = {} THEN <<>>
    ELSE LET m == CHOOSE x \in S : \A y \in S : y = x \/ LexLess(x, y)
         IN  <<m>> \o SortAsc(S \ {m})

RECURSIVE SumOf(_, _, _, _)
SumOf(df, school, col, i) ==
    IF i > Len(df) THEN 0
    ELSE (IF df[i].school = school THEN df[i][col] ELSE 0) + SumOf(df, school, col, i + 1)

CountOf(df, school) == Cardinality({i \in DOMAIN df : df[i].school = school})

\* df.groupby(school)[col].mean(): one entry per school that has rows, the
\* schools in ascending order; a mean is kept as the pair (sum, n).
groupby_mean(df, col) ==
    LET ks == SortAsc({df[i].school : i \in DOMAIN df})
    IN  [g \in DOMAIN ks |->
            [school |-> ks[g], sum |-> SumOf(df, ks[g], col, 1), n |-> CountOf(df, ks[g])]]

Greater(a, b) == a.sum * b.n > b.sum * a.n

GreaterOrEqual(a, b) == a.sum * b.n >= b.sum * a.n

\* Series.idxmax(): the label at the first position holding the maximum.
RECURSIVE ArgMax(_, _, _)
ArgMax(series, i, best) ==
    IF i > Len(series) THEN best
    ELSE ArgMax(series, i + 1, IF Greater(series[i], series[best]) THEN i ELSE best)

RECURSIVE ArgMaxLast(_, _, _)
ArgMaxLast(series, i, best) ==
    IF i > Len(series) THEN best
    ELSE ArgMaxLast(series, i + 1,
                    IF GreaterOrEqual(series[i], series[best]) THEN i ELSE best)

idxmax_last(series) == series[ArgMaxLast(series, 1, 1)].school

idxmax(series) == series[ArgMax(series, 1, 1)].school

(***************************************************************************)
(* EC_MAP, lines 83-88, in tenths.                                         *)
(***************************************************************************)
EC_MAP ==
    [keys |-> <<Songdo, Haneul, Ara, Dongsan>>, values |-> <<10, 20, 40, 80>>]

\* dict.get(k): None for a missing key
GetOrNone(d, k) == IF k \in Keys(d) THEN Get(d, k) ELSE None

Options == <<All, Songdo, Haneul, Ara, Dongsan>>

(***************************************************************************)
(* The loaders.  Each returns [value, errors]: the function's return value *)
(* and the st.error elements it emitted, which st.cache_data stores with   *)
(* the value and replays on a cache hit.                                   *)
(***************************************************************************)
RECURSIVE LoadEnvFrom(_, _, _)
LoadEnvFrom(directory, i, acc) ==
    IF i > Len(Schools) THEN [value |-> acc, errors |-> <<>>]
    ELSE LET school == Schools[i]
             file == find_file(directory, EnvFileName(school))
         IN  IF file = None
             THEN [value |-> None, errors |-> <<[dataset |-> "env", school |-> school]>>]
             ELSE LoadEnvFrom(directory, i + 1,
                              Put(acc, school, TagEnv(file.content, school)))

RECURSIVE LoadEnvSkipping(_, _, _)
LoadEnvSkipping(directory, i, acc) ==
    IF i > Len(Schools) THEN [value |-> acc, errors |-> <<>>]
    ELSE LET school == Schools[i]
             file == find_file(directory, EnvFileName(school))
         IN  IF file = None
             THEN LoadEnvSkipping(directory, i + 1, acc)
             ELSE LoadEnvSkipping(directory, i + 1,
                                  Put(acc, school, TagEnv(file.content, school)))

load_environment_data_skipping(directory) == LoadEnvSkipping(directory, 1, EmptyDict)

load_environment_data(directory) == LoadEnvFrom(directory, 1, EmptyDict)

RECURSIVE ParseSheets(_, _, _)
ParseSheets(xls, i, data) ==
    IF i > Len(xls) THEN data
    ELSE ParseSheets(xls, i + 1,
                     Put(data, xls[i].name, TagGrowth(xls[i].rows, xls[i].name)))

load_growth_data(directory) ==
    LET file == find_file(directory, GrowthFileName)
    IN  IF file = None
        THEN [value |-> None, errors |-> <<[dataset |-> "growth", school |-> <<>>]>>]
        ELSE [value |-> ParseSheets(file.content, 1, EmptyDict), errors |-> <<>>]

\* No entry in the cache yet.
Unset == [unset |-> TRUE]

\* @st.cache_data: the stored entry when there is one, else the call.
uncached_call(cache, computed) == computed

cache_data(cache, computed) == IF cache = Unset THEN computed ELSE cache

(***************************************************************************)
(* The data directory.  The producing tool wrote every name in one form    *)
(* (composed or decomposed); any of the five files may be missing.         *)
(***************************************************************************)
EnvCsv(s) ==
    << [time |-> 1, temperature |-> 20 + s, humidity |-> 50 + s, ph |-> 6,
        ec |-> EC_MAP.values[s]],
       [time |-> 2, temperature |-> 22 + s, humidity |-> 60 - s, ph |-> 6,
        ec |-> EC_MAP.values[s] + 1] >>

Stored(name, form) == IF form = "NFD" THEN NFD(name) ELSE name

RECURSIVE EnvEntries(_, _, _)
EnvEntries(present, form, s) ==
    IF s > Len(Schools) THEN <<>>
    ELSE (IF s \in present
          THEN <<[name |-> Stored(EnvFileName(Schools[s]), form), content |-> EnvCsv(s)]>>
          ELSE <<>>) \o EnvEntries(present, form, s + 1)

GrowthFile == Len(Schools) + 1

DataDir(present, form, book) ==
    EnvEntries(present, form, 1) \o
    (IF GrowthFile \in present
     THEN <<[name |-> Stored(GrowthFileName, form), content |-> book]>>
     ELSE <<>>)

(***************************************************************************)
(* Growth workbooks: at most MaxSheets sheets with distinct names, each    *)
(* holding one of GrowthTables, and two fixed workbooks.                   *)
(***************************************************************************)
MaxSheets == 2

Sheet1 == <<83, 104, 101, 101, 116, 49>>

SheetNames == {Dongsan, Haneul, Sheet1}

Plants(weights) == [i \in DOMAIN weights |-> [id |-> i, weight |-> weights[i]]]

\* No plant; one of 3.0 g; two of mean 3.0 g; two of mean 2.5 g.
GrowthTables == {<<>>, Plants(<<30>>), Plants(<<20, 40>>), Plants(<<20, 30>>)}

RECURSIVE Workbooks(_)
Workbooks(k) ==
    IF k = 1 THEN {<<[name |-> n, rows |-> t]>> : n \in SheetNames, t \in GrowthTables}
    ELSE LET shorter == Workbooks(k - 1)
         IN  shorter \cup
             { Append(b, [name |-> n, rows |-> t]) :
                 b \in {x \in shorter : Len(x) = k - 1},
                 n \in SheetNames, t \in GrowthTables }

DistinctSheets(b) == \A i, j \in DOMAIN b : b[i].name = b[j].name => i = j

\* The four schools with mean fresh weights 1.2, 3.4, 2.1 and 0.9 g.
ExampleBook ==
    << [name |-> Songdo, rows |-> Plants(<<12>>)],
       [name |-> Haneul, rows |-> Plants(<<34>>)],
       [name |-> Ara, rows |-> Plants(<<21>>)],
       [name |-> Dongsan, rows |-> Plants(<<9>>)] >>

\* One sheet whose name was written decomposed.
DecomposedBook == << [name |-> NFD(Songdo), rows |-> Plants(<<20>>)] >>

FixedBooks == {ExampleBook, DecomposedBook}

Books == FixedBooks \cup {b \in Workbooks(MaxSheets) : DistinctSheets(b)}

Presences == SUBSET (1..GrowthFile)

(***************************************************************************)
(* The script, lines 73-264, one action per block.  A run starts at        *)
(* "load"; st.stop() ends it at "stopped", an uncaught exception at        *)
(* "crashed", the last line at "done".                                     *)
(***************************************************************************)
NoOutput ==
    /\ errors = <<>>
    /\ rendered = <<>>
    /\ summary_df = <<>>
    /\ avg_weight_by_ec = <<>>
    /\ optimal_school = <<>>
    /\ optimal_ec = None
    /\ metrics = None
    /\ env_mean = <<>>
    /\ timeseries = None
    /\ weight_mean = <<>>
    /\ exception = "None"

InitScript ==
    /\ env_cache = Unset
    /\ growth_cache = Unset
    /\ first_env = Unset
    /\ first_growth = Unset
    /\ pc = "load"
    /\ school_option = Options[1]
    /\ env_data = None
    /\ growth_data = None
    /\ NoOutput
    /\ changes = 0

IdleLocator ==
    /\ target_name = <<>>
    /\ found = None
    /\ lpc = "idle"

\* Every directory with the example workbook, and the complete directory
\* with every workbook.
Init ==
    /\ \E present \in Presences, form \in {"NFC", "NFD"}, book \in Books :
          /\ book \in FixedBooks \/ (present = 1..GrowthFile /\ form = "NFC")
          /\ files = DataDir(present, form, book)
    /\ IdleLocator
    /\ InitScript

\* Lines 73-75: both loaders are called, through st.cache_data.
Load ==
    /\ pc = "load"
    /\ LET e == cache_data(env_cache, load_environment_data(files))
           g == cache_data(growth_cache, load_growth_data(files))
       IN  /\ env_cache' = e
           /\ growth_cache' = g
           /\ env_data' = e.value
           /\ growth_data' = g.value
           /\ errors' = e.errors \o g.errors
           /\ rendered' = [i \in 1..Len(e.errors \o g.errors) |-> "error"]
           /\ first_env' = IF first_env = Unset THEN e.value ELSE first_env
           /\ first_growth' = IF first_growth = Unset THEN g.value ELSE first_growth
    /\ pc' = "check"
    /\ UNCHANGED <<summary_df, avg_weight_by_ec, optimal_school, optimal_ec, metrics,
                   env_mean, timeseries, weight_mean, exception>>
    /\ UNCHANGED <<lvars, school_option, changes>>

\* Line 77.
must_stop_if_both(e, g) == e = None /\ g = None

must_stop(e, g) == e = None \/ g = None

\* Lines 77-78.
Check ==
    /\ pc = "check"
    /\ pc' = IF must_stop(env_data, growth_data) THEN "stopped" ELSE "sidebar"
    /\ UNCHANGED <<env_data, growth_data, errors, rendered, summary_df,
                   avg_weight_by_ec, optimal_school, optimal_ec, metrics, env_mean,
                   timeseries, weight_mean, exception>>
    /\ UNCHANGED <<lvars, cachevars, school_option, changes>>

\* Lines 93-104: the sidebar selectbox, the title and the tabs.
Sidebar ==
    /\ pc = "sidebar"
    /\ rendered' = rendered \o <<"sidebar", "title">>
    /\ pc' = "tab1"
    /\ UNCHANGED <<env_data, growth_data, errors, summary_df, avg_weight_by_ec,
                   optimal_school, optimal_ec, metrics, env_mean, timeseries,
                   weight_mean, exception>>
    /\ UNCHANGED <<lvars, cachevars, school_option, changes>>

\* Lines 118-126.
Summary(growth) ==
    [i \in DOMAIN growth.keys |->
        [school |-> growth.keys[i],
         ec |-> GetOrNone(EC_MAP, growth.keys[i]),
         n |-> Len(growth.values[i])]]

\* Lines 110-127: the per-school summary table is shown.
Tab1Summary ==
    /\ pc = "tab1"
    /\ IF growth_data = None
       THEN /\ exception' = "AttributeError"
            /\ pc' = "crashed"
            /\ UNCHANGED <<summary_df, rendered>>
       ELSE /\ summary_df' = Summary(growth_data)
            /\ rendered' = Append(rendered, "summary_df")
            /\ pc' = "optimum"
            /\ UNCHANGED exception
    /\ UNCHANGED <<env_data, growth_data, errors, avg_weight_by_ec, optimal_school,
                   optimal_ec, metrics, env_mean, timeseries, weight_mean>>
    /\ UNCHANGED <<lvars, cachevars, school_option, changes>>

\* Lines 129-138: the totals, the mean weight of each school and the optimum.
\* idxmax raises ValueError on an empty series, EC_MAP[...] KeyError on a
\* school that is no key.
Tab1Optimum ==
    /\ pc = "optimum"
    /\ IF env_data = None
       THEN /\ exception' = "AttributeError"
            /\ pc' = "crashed"
            /\ UNCHANGED <<avg_weight_by_ec, optimal_school, optimal_ec>>
       ELSE LET series == groupby_mean(concat(growth_data), "weight")
            IN  /\ avg_weight_by_ec' = series
                /\ IF series = <<>>
                   THEN /\ exception' = "ValueError"
                        /\ pc' = "crashed"
                        /\ UNCHANGED <<optimal_school, optimal_ec>>
                   ELSE /\ optimal_school' = idxmax(series)
                        /\ IF idxmax(series) \in Keys(EC_MAP)
                           THEN /\ optimal_ec' = Get(EC_MAP, idxmax(series))
                                /\ pc' = "metrics"
                                /\ UNCHANGED exception
                           ELSE /\ exception' = "KeyError"
                                /\ pc' = "crashed"
                                /\ UNCHANGED optimal_ec
    /\ UNCHANGED <<env_data, growth_data, errors, rendered, summary_df, metrics,
                   env_mean, timeseries, weight_mean>>
    /\ UNCHANGED <<lvars, cachevars, school_option, changes>>

\* The mean of a column over all rows, as the pair (sum, n).
RECURSIVE ColumnSum(_, _, _)
ColumnSum(df, col, i) ==
    IF i > Len(df) THEN 0 ELSE df[i][col] + ColumnSum(df, col, i + 1)

mean(df, col) == [sum |-> ColumnSum(df, col, 1), n |-> Len(df)]

\* Line 144: the label of the fourth metric names Haneul, whatever the optimum.
c4_label(ec, school) == [ec |-> ec, school |-> Haneul]

\* Lines 140-144.
Tab1Metrics ==
    /\ pc = "metrics"
    /\ metrics' =
          [total_plants |-> Len(concat(growth_data)),
           avg_temp |-> mean(concat(env_data), "temperature"),
           avg_hum |-> mean(concat(env_data), "humidity"),
           c4 |-> c4_label(optimal_ec, optimal_school)]
    /\ rendered' = Append(rendered, "metrics")
    /\ pc' = "tab2"
    /\ UNCHANGED <<env_data, growth_data, errors, summary_df, avg_weight_by_ec,
                   optimal_school, optimal_ec, env_mean, timeseries, weight_mean,
                   exception>>
    /\ UNCHANGED <<lvars, cachevars, school_option, changes>>

\* Lines 152-153.
EnvMean(env_all) ==
    LET t == groupby_mean(env_all, "temperature")
        h == groupby_mean(env_all, "humidity")
        p == groupby_mean(env_all, "ph")
        e == groupby_mean(env_all, "ec")
    IN  [g \in DOMAIN t |->
            [school |-> t[g].school, temperature |-> t[g].sum, humidity |-> h[g].sum,
             ph |-> p[g].sum, ec |-> e[g].sum, n |-> t[g].n]]

\* Lines 149-195: the environment means of every school, the time series of
\* the school chosen in the sidebar, the raw environment table.
Tab2 ==
    /\ pc = "tab2"
    /\ env_mean' = EnvMean(concat(env_data))
    /\ IF school_option # All
       THEN IF school_option \in Keys(env_data) /\ school_option \in Keys(EC_MAP)
            THEN /\ timeseries' =
                       [df |-> Get(env_data, school_option),
                        hline |-> Get(EC_MAP, school_option)]
                 /\ rendered' = rendered \o <<"env_chart", "timeseries", "env_table">>
                 /\ pc' = "tab3"
                 /\ UNCHANGED exception
            ELSE /\ exception' = "KeyError"
                 /\ rendered' = Append(rendered, "env_chart")
                 /\ pc' = "crashed"
                 /\ UNCHANGED timeseries
       ELSE /\ rendered' = rendered \o <<"env_chart", "env_table">>
            /\ pc' = "tab3"
            /\ UNCHANGED <<timeseries, exception>>
    /\ UNCHANGED <<env_data, growth_data, errors, summary_df, avg_weight_by_ec,
                   optimal_school, optimal_ec, metrics, weight_mean>>
    /\ UNCHANGED <<lvars, cachevars, school_option, changes>>

\* Lines 200-264: the growth means of every school and the raw growth table.
Tab3 ==
    /\ pc = "tab3"
    /\ weight_mean' = groupby_mean(concat(growth_data), "weight")
    /\ rendered' = rendered \o <<"weight_chart", "growth_charts", "growth_table">>
    /\ pc' = "done"
    /\ UNCHANGED <<env_data, growth_data, errors, summary_df, avg_weight_by_ec,
                   optimal_school, optimal_ec, metrics, env_mean, timeseries,
                   exception>>
    /\ UNCHANGED <<lvars, cachevars, school_option, changes>>

Ended == pc \in {"stopped", "crashed", "done"}

NewRun ==
    /\ pc' = "load"
    /\ env_data' = None
    /\ growth_data' = None
    /\ errors' = <<>>
    /\ rendered' = <<>>
    /\ summary_df' = <<>>
    /\ avg_weight_by_ec' = <<>>
    /\ optimal_school' = <<>>
    /\ optimal_ec' = None
    /\ metrics' = None
    /\ env_mean' = <<>>
    /\ timeseries' = None
    /\ weight_mean' = <<>>
    /\ exception' = "None"

\* The user picks another school in the sidebar: the script runs again.
SelectSchool ==
    /\ Ended
    /\ "sidebar" \in Range(rendered)
    /\ \E o \in Range(Options) :
          /\ o # school_option
          /\ school_option' = o
    /\ NewRun
    /\ UNCHANGED <<lvars, cachevars, changes>>

\* The user reruns the script as it is.
Rerun ==
    /\ Ended
    /\ NewRun
    /\ UNCHANGED <<lvars, cachevars, school_option, changes>>

Next ==
    \/ Load
    \/ Check
    \/ Sidebar
    \/ Tab1Summary
    \/ Tab1Optimum
    \/ Tab1Metrics
    \/ Tab2
    \/ Tab3
    \/ SelectSchool
    \/ Rerun

Spec == Init /\ [][Next]_vars

(***************************************************************************)
(* The same program while the data directory changes between runs: a file  *)
(* is deleted, or rewritten with one more row (a csv) or one more plant in *)
(* its first sheet (the workbook).                                         *)
(***************************************************************************)
MaxFileChanges == 1

ExtraEnvRow == [time |-> 3, temperature |-> 30, humidity |-> 40, ph |-> 7, ec |-> 5]

ExtraPlant == [id |-> 9, weight |-> 90]

Remove(d, i) == [j \in 1..(Len(d) - 1) |-> IF j < i THEN d[j] ELSE d[j + 1]]

IsWorkbook(f) == normalize(f.name) = normalize(GrowthFileName)

Rewritten(f) ==
    IF IsWorkbook(f)
    THEN [f EXCEPT !.content[1].rows = Append(@, ExtraPlant)]
    ELSE [f EXCEPT !.content = Append(@, ExtraEnvRow)]

FileChange ==
    /\ Ended
    /\ changes < MaxFileChanges
    /\ changes' = changes + 1
    /\ \E i \in DOMAIN files :
          \/ files' = Remove(files, i)
          \/ files' = [files EXCEPT ![i] = Rewritten(files[i])]
    /\ UNCHANGED <<target_name, found, lpc, cachevars, runvars, school_option>>

InitChanging ==
    /\ \E present \in Presences, form \in {"NFC", "NFD"} :
          files = DataDir(present, form, ExampleBook)
    /\ IdleLocator
    /\ InitScript

NextChanging == Next \/ FileChange

SpecChanging == InitChanging /\ [][NextChanging]_vars

(***************************************************************************)
(* Locator runs: every directory of at most MaxEntries distinctly named    *)
(* entries drawn from LocatorNames, every target of LocatorTargets.        *)
(***************************************************************************)
MaxEntries == 3

SongdoLV == <<49548, 4540, 46020, 44256>>   \* first syllable as LV + trailing jamo
Sodo == <<49548, 46020, 44256>>             \* another visible name: no final consonant

LocatorNames ==
    { EnvFileName(Songdo), NFD(EnvFileName(Songdo)), EnvFileName(SongdoLV),
      EnvFileName(Sodo), NFD(EnvFileName(Sodo)),
      GrowthFileName, NFD(GrowthFileName) }

LocatorTargets ==
    { EnvFileName(Songdo), NFD(EnvFileName(Songdo)), EnvFileName(SongdoLV),
      EnvFileName(Sodo), GrowthFileName, NFD(GrowthFileName) }

Entry(n) == [name |-> n, content |-> <<>>]

RECURSIVE Directories(_)
Directories(k) ==
    IF k = 0 THEN {<<>>}
    ELSE LET shorter == Directories(k - 1)
         IN  shorter \cup
             { Append(d, Entry(n)) :
                 d \in {x \in shorter : Len(x) = k - 1}, n \in LocatorNames }

DistinctNames(d) == \A i, j \in DOMAIN d : d[i].name = d[j].name => i = j

InitLocator ==
    /\ files \in {d \in Directories(MaxEntries) : DistinctNames(d)}
    /\ target_name \in LocatorTargets
    /\ found = None
    /\ lpc = "call"
    /\ InitScript

FindFile ==
    /\ lpc = "call"
    /\ found' = find_file(files, target_name)
    /\ lpc' = "returned"
    /\ UNCHANGED <<files, target_name, cachevars, runvars, school_option, changes>>

NextLocator == FindFile

SpecLocator == InitLocator /\ [][NextLocator]_vars

\* Two texts are normalization forms of one visible name.
SameVisible(a, b) == NFD(a) = NFD(b)

Matches(d, t) == {i \in DOMAIN d : SameVisible(d[i].name, t)}

Min(S) == CHOOSE x \in S : \A y \in S : x <= y

\* C1 (as amended): for the composed and the decomposed form of one target
\* find_file returns the same result; when the directory holds an entry
\* named by a normalization form of the target, the result is not None but
\* the first such entry in iteration order; and it is None otherwise.
C1_FormsResolveAlike ==
    lpc = "returned" =>
        /\ find_file(files, NFD(target_name)) = found
        /\ find_file(files, normalize(target_name)) = found
        /\ Matches(files, target_name) # {} =>
               /\ found # None
               /\ found = files[Min(Matches(files, target_name))]
        /\ Matches(files, target_name) = {} => found = None

\* C1 witness: the target was asked for in one form and found stored under another.
C1_Witness ==
    /\ lpc = "returned"
    /\ found # None
    /\ found.name # target_name
    /\ target_name = normalize(target_name)
    /\ found.name = NFD(target_name)

\* C1 as stated: every entry stored under the composed or the decomposed
\* form of the target is the entry find_file returns.
C1_ReturnsThatEntry ==
    lpc = "returned" =>
        \A i \in DOMAIN files :
            files[i].name \in {normalize(target_name), NFD(target_name)}
                => found = files[i]

(***************************************************************************)
(* The loaders and the halt.                                               *)
(***************************************************************************)
\* A file is on disk under the composed or the decomposed form of a name.
OnDisk(name) ==
    LET forms == {name, NFD(name)} IN \E i \in DOMAIN files : files[i].name \in forms

FileOf(name) ==
    LET forms == {name, NFD(name)}
    IN  files[CHOOSE i \in DOMAIN files : files[i].name \in forms]

FoundSchools == {s \in Range(Schools) : OnDisk(EnvFileName(s))}

\* C2: load_environment_data returns None whenever the file of one of the
\* four schools is missing, and otherwise a mapping whose keys are exactly
\* the schools whose file was found, each table holding the rows of that
\* school's file, every row tagged with that school.
C2_MappingOrNone ==
    pc # "load" =>
        IF FoundSchools # Range(Schools)
        THEN env_data = None
        ELSE /\ env_data # None
             /\ Keys(env_data) = FoundSchools
             /\ \A i \in DOMAIN env_data.keys :
                   LET school == env_data.keys[i]
                       df == env_data.values[i]
                   IN  /\ Len(df) = Len(FileOf(EnvFileName(school)).content)
                       /\ \A r \in DOMAIN df : df[r].school = school

\* C2 witness: the first school's file was found and a later one is missing.
C2_Witness ==
    /\ pc = "check"
    /\ env_data = None
    /\ OnDisk(EnvFileName(Schools[1]))
    /\ ~OnDisk(EnvFileName(Schools[3]))

\* C3: in a run where a loader returned None, an error naming a school whose
\* file is missing (or the growth workbook, when that is missing) is shown,
\* the run goes no further than st.stop(), and nothing but error messages is
\* on the page.
C3_MissingFileHalts ==
    (pc # "load" /\ (env_data = None \/ growth_data = None)) =>
        /\ pc \in {"check", "stopped"}
        /\ Range(rendered) = {"error"}
        /\ env_data = None =>
              \E i \in DOMAIN errors :
                  /\ errors[i].dataset = "env"
                  /\ errors[i].school \in Range(Schools)
                  /\ ~OnDisk(EnvFileName(errors[i].school))
        /\ growth_data = None =>
              /\ ~OnDisk(GrowthFileName)
              /\ \E i \in DOMAIN errors : errors[i].dataset = "growth"
        /\ summary_df = <<>> /\ metrics = None /\ env_mean = <<>>
        /\ timeseries = None /\ weight_mean = <<>>

\* C3 witness: the run stopped with only the growth workbook missing.
C3_Witness ==
    /\ pc = "stopped"
    /\ env_data # None
    /\ growth_data = None
    /\ Len(errors) = 1

\* C8: every call of the loaders returns what the first call returned,
\* whatever was rendered and whatever happened to the files in between.
C8_LaterCallsReturnFirstResult ==
    pc # "load" => (env_data = first_env /\ growth_data = first_growth)

\* C8 witness: a later call, made after an environment file changed, has
\* returned the tables of the first call and not what the directory holds now.
C8_Witness ==
    /\ pc = "check"
    /\ changes > 0
    /\ env_data # None
    /\ growth_data # None
    /\ load_environment_data(files).value # env_data

(***************************************************************************)
(* The optimum.                                                            *)
(***************************************************************************)
SheetMean(i) ==
    [sum |-> ColumnSum(growth_data.values[i], "weight", 1),
     n |-> Len(growth_data.values[i])]

Planted == {i \in DOMAIN growth_data.keys : growth_data.values[i] # <<>>}

ExampleMeans ==
    { [school |-> Songdo, sum |-> 12, n |-> 1], [school |-> Haneul, sum |-> 34, n |-> 1],
      [school |-> Ara, sum |-> 21, n |-> 1], [school |-> Dongsan, sum |-> 9, n |-> 1] }

\* C5: the grouped result holds one mean per sheet that has plants, in
\* ascending order of the sheet names; optimal_school is a sheet whose mean
\* fresh weight is largest and, among those, the first of the grouped
\* result; the reported optimal_ec is that school's EC (2.0 for the means
\* 1.2, 3.4, 2.1 and 0.9 of the four schools).
C5_OptimumIsFirstLargestMean ==
    /\ optimal_school # <<>> =>
          /\ Len(avg_weight_by_ec) = Cardinality(Planted)
          /\ \A g, h \in DOMAIN avg_weight_by_ec :
                g < h => LexLess(avg_weight_by_ec[g].school, avg_weight_by_ec[h].school)
          /\ \E i \in Planted :
                /\ growth_data.keys[i] = optimal_school
                /\ \A j \in Planted :
                      /\ GreaterOrEqual(SheetMean(i), SheetMean(j))
                      /\ GreaterOrEqual(SheetMean(j), SheetMean(i)) =>
                            \/ j = i
                            \/ LexLess(optimal_school, growth_data.keys[j])
          /\ \E g \in DOMAIN avg_weight_by_ec :
                /\ avg_weight_by_ec[g].school = optimal_school
                /\ \A h \in DOMAIN avg_weight_by_ec :
                      /\ GreaterOrEqual(avg_weight_by_ec[g], avg_weight_by_ec[h])
                      /\ h < g => Greater(avg_weight_by_ec[g], avg_weight_by_ec[h])
    /\ (optimal_school # <<>> /\ exception = "None") =>
          /\ \E e \in DOMAIN EC_MAP.keys :
                EC_MAP.keys[e] = optimal_school /\ EC_MAP.values[e] = optimal_ec
          /\ Range(avg_weight_by_ec) = ExampleMeans =>
                (optimal_school = Haneul /\ optimal_ec = 20)
    /\ metrics # None => metrics.c4.ec = optimal_ec

\* C5 witness: two schools tie for the largest mean and the metric is shown.
C5_Witness ==
    /\ metrics # None
    /\ \E g, h \in DOMAIN avg_weight_by_ec :
          /\ g < h
          /\ avg_weight_by_ec[g].school = optimal_school
          /\ GreaterOrEqual(avg_weight_by_ec[h], avg_weight_by_ec[g])

\* C4 as stated: a run that does not complete leaves nothing on the page
\* but error messages.
C4_NoPartialSuccess ==
    Ended => (pc = "done" \/ Range(rendered) \subseteq {"error"})

\* C6 as stated: every school of the summary table and of the per-school
\* growth means has both environment data and a growth sheet, and no error
\* is raised.
C6_OnlySchoolsInBoth ==
    /\ \A i \in DOMAIN summary_df :
          summary_df[i].school \in Keys(env_data) \cap Keys(growth_data)
    /\ \A i \in DOMAIN weight_mean :
          weight_mean[i].school \in Keys(env_data) \cap Keys(growth_data)
    /\ exception # "KeyError"

\* C7 as stated: with one school selected, the means the reported optimum
\* is taken from are computed from that school's rows only.
C7_OptimumFromSelectedSchool ==
    (school_option # All /\ metrics # None) =>
        \A g \in DOMAIN avg_weight_by_ec : avg_weight_by_ec[g].school = school_option

\* C9 as stated: the school named in the "optimal EC" metric is
\* optimal_school, and the value shown is that school's EC.
C9_LabelNamesOptimum ==
    metrics # None =>
        /\ metrics.c4.school = optimal_school
        /\ metrics.c4.ec = Get(EC_MAP, optimal_school)

\* C10 as stated: once both loaders succeeded, every school of the sidebar
\* is a key of env_data and of EC_MAP, and the school with the largest mean
\* fresh weight is a key of EC_MAP.
C10_LookupsDefined ==
    (pc \notin {"load", "check", "stopped"}) =>
        /\ \A o \in Range(Options) \ {All} : o \in Keys(env_data) /\ o \in Keys(EC_MAP)
        /\ avg_weight_by_ec # <<>> =>
              idxmax(avg_weight_by_ec) \in Keys(EC_MAP)

====
